---- MODULE Spec2Model ----
(***************************************************************************)
(* Model of python/gtsam_examples/SFMdata.py: createPoints() builds the    *)
(* eight landmarks, createPoses() builds eight camera poses on a circle,   *)
(* each looking at the origin.                                             *)
(*                                                                         *)
(* Numbers.  Every real number the program computes lies in the field      *)
(* Q(sqrt 2): the coordinates are +-10, the radius is 30 and the cosines   *)
(* and sines of multiples of pi/4 are 0, +-1, +-sqrt(2)/2.  A number is    *)
(* the triple <<a, b, d>> standing for (a + b*sqrt(2)) / d with d > 0 and  *)
(* gcd(a, b, d) = 1, so arithmetic is exact and equality of triples is     *)
(* equality of reals.  The doubles of the program differ from these reals  *)
(* by rounding only (about 1e-15); "within tolerance" in a property is     *)
(* read as equality of the exact values.  d = 0 encodes the non-finite     *)
(* doubles: <<0,0,0>> is NaN, <<1,0,0>> is +inf, <<-1,0,0>> is -inf.       *)
(* Angles are kept as multiples of pi: the angle theta is the number c     *)
(* with theta = c * pi.                                                    *)
(***************************************************************************)
EXTENDS Integers, Sequences, FiniteSets, TLC

\* ---------------------------------------------------------------- bounds
NumThreads == 2
MaxCalls == 3

\* ------------------------------------------------------- exact arithmetic
Abs(n) == IF n < 0 THEN -n ELSE n

RECURSIVE GCD(_, _)
GCD(m, n) == IF n = 0 THEN m ELSE GCD(n, m % n)

SignInt(n) == IF n > 0 THEN 1 ELSE IF n < 0 THEN -1 ELSE 0

NaN == <<0, 0, 0>>
Inf(s) == <<s, 0, 0>>

\* (a + b*sqrt 2)/d in lowest terms with a positive denominator
Mk(a, b, d) ==
    IF d = 0 THEN Inf(SignInt(a))
    ELSE IF d = 1 THEN <<a, b, 1>>
    ELSE LET g == GCD(GCD(Abs(a), Abs(b)), Abs(d))
             s == SignInt(d)
         IN  <<(s * a) \div g, (s * b) \div g, (s * d) \div g>>

Num(i) == <<i, 0, 1>>
Zero == Num(0)
One == Num(1)

IsFinite(x) == x[3] # 0
IsNaN(x) == x = NaN

\* sign of (a + b*sqrt 2)/d; for a non-finite value the sign of the infinity
Sign(x) ==
    LET a == x[1]
        b == x[2]
    IN  IF x[3] = 0 THEN a
        ELSE IF a >= 0 /\ b >= 0 THEN (IF a = 0 /\ b = 0 THEN 0 ELSE 1)
        ELSE IF a <= 0 /\ b <= 0 THEN -1
        ELSE IF a > 0 THEN (IF a * a > 2 * b * b THEN 1 ELSE -1)
        ELSE (IF 2 * b * b > a * a THEN 1 ELSE -1)

Neg(x) == <<-x[1], -x[2], x[3]>>

Add(x, y) ==
    IF IsFinite(x) /\ IsFinite(y)
    THEN Mk(x[1] * y[3] + y[1] * x[3], x[2] * y[3] + y[2] * x[3], x[3] * y[3])
    ELSE IF IsNaN(x) \/ IsNaN(y) THEN NaN
    ELSE IF IsFinite(x) THEN y
    ELSE IF IsFinite(y) THEN x
    ELSE IF x = y THEN x ELSE NaN

Sub(x, y) == Add(x, Neg(y))

Mul(x, y) ==
    IF IsFinite(x) /\ IsFinite(y)
    THEN Mk(x[1] * y[1] + 2 * x[2] * y[2], x[1] * y[2] + x[2] * y[1], x[3] * y[3])
    ELSE IF IsNaN(x) \/ IsNaN(y) THEN NaN
    ELSE Inf(Sign(x) * Sign(y))

Div(x, y) ==
    IF IsNaN(x) \/ IsNaN(y) THEN NaN
    ELSE IF ~IsFinite(y) THEN (IF IsFinite(x) THEN Zero ELSE NaN)
    ELSE IF Sign(y) = 0 THEN Inf(Sign(x))
    ELSE Mul(x, Mk(y[3] * y[1], -(y[3] * y[2]), y[1] * y[1] - 2 * y[2] * y[2]))

Less(x, y) == Sign(Sub(y, x)) = 1

\* the largest r in lo..hi with r*r <= n, by bisection
RECURSIVE SqrtSearch(_, _, _)
SqrtSearch(n, lo, hi) ==
    IF lo >= hi THEN lo
    ELSE LET mid == (lo + hi + 1) \div 2
         IN  IF mid * mid <= n THEN SqrtSearch(n, mid, hi)
             ELSE SqrtSearch(n, lo, mid - 1)
ISqrt(n) == SqrtSearch(n, 0, n)
IsSquare(n) == n >= 0 /\ ISqrt(n) * ISqrt(n) = n

\* square root of a number whose root lies in Q(sqrt 2) again: a rational
\* p^2/q^2 or twice such a rational.  Every squared length the program
\* takes a root of is of the first kind (900 and 1).
Sqrt(x) ==
    IF ~IsFinite(x) THEN (IF x = Inf(1) THEN x ELSE NaN)
    ELSE IF Sign(x) < 0 THEN NaN
    ELSE IF x[2] = 0 /\ IsSquare(x[1]) /\ IsSquare(x[3])
         THEN Mk(ISqrt(x[1]), 0, ISqrt(x[3]))
    ELSE LET h == Mk(x[1], 0, 2 * x[3])
         IN  CHOOSE r \in {Mk(0, ISqrt(h[1]), ISqrt(h[3]))} :
                 x[2] = 0 /\ Mul(r, r) = x

\* ------------------------------------------------------------- 3-vectors
Point3(x, y, z) == <<x, y, z>>

VSub(u, v) == <<Sub(u[1], v[1]), Sub(u[2], v[2]), Sub(u[3], v[3])>>
VAdd(u, v) == <<Add(u[1], v[1]), Add(u[2], v[2]), Add(u[3], v[3])>>
VNeg(u) == <<Neg(u[1]), Neg(u[2]), Neg(u[3])>>
Dot(u, v) == Add(Add(Mul(u[1], v[1]), Mul(u[2], v[2])), Mul(u[3], v[3]))
Cross(u, v) ==
    <<Sub(Mul(u[2], v[3]), Mul(u[3], v[2])),
      Sub(Mul(u[3], v[1]), Mul(u[1], v[3])),
      Sub(Mul(u[1], v[2]), Mul(u[2], v[1]))>>
Norm(u) == Sqrt(Dot(u, u))
Normalize(u) ==
    LET n == Norm(u) IN <<Div(u[1], n), Div(u[2], n), Div(u[3], n)>>
VFinite(u) == IsFinite(u[1]) /\ IsFinite(u[2]) /\ IsFinite(u[3])
ZeroVec == <<Zero, Zero, Zero>>

\* ------------------------------------------------- numpy and gtsam calls
\* np.pi, as a multiple of pi
NpPi == One

HalfSqrt2 == Mk(0, 1, 2)

\* <<cos, sin>> turned by a further pi/4 (angle addition)
Rot45(cs) ==
    <<Sub(Mul(cs[1], HalfSqrt2), Mul(cs[2], HalfSqrt2)),
      Add(Mul(cs[2], HalfSqrt2), Mul(cs[1], HalfSqrt2))>>

RECURSIVE CosSin(_)
CosSin(m) ==
    IF m = 0 THEN <<One, Zero>>
    ELSE IF m < 0 THEN <<CosSin(-m)[1], Neg(CosSin(-m)[2])>>
    ELSE Rot45(CosSin(m - 1))

\* the angle theta*pi counted in steps of pi/4 (theta is a multiple of 1/4)
EighthTurns(theta) ==
    LET q == Mul(theta, Num(4))
    IN  CHOOSE m \in {q[1]} : q[2] = 0 /\ q[3] = 1

\* np.cos and np.sin at theta*pi
Cos(theta) == CosSin(EighthTurns(theta))[1]
Sin(theta) == CosSin(EighthTurns(theta))[2]

\* np.linspace(start, stop, num, endpoint): num samples start + k*step,
\* step = (stop - start)/num, or /(num - 1) when the endpoint is included
linspace(start, stop, num, endpoint) ==
    LET div == IF endpoint THEN num - 1 ELSE num
        step == Div(Sub(stop, start), Num(div))
    IN  [k \in 1..num |-> Add(start, Mul(Num(k - 1), step))]

\* PinholeCameraCal3_S2.Lookat(eye, target, up): the camera at eye whose
\* forward axis is normalize(target - eye), right axis normalize(forward x up)
\* and recomputed up axis right x forward.  The rotation R is kept as its
\* three columns in the camera convention x = right, y = down, z = forward,
\* down = -(right x forward), which is a right-handed triple (right, up and
\* forward in this order are a left-handed one).
Lookat(eye, target, upVector) ==
    LET forward == Normalize(VSub(target, eye))
        right == Normalize(Cross(forward, upVector))
        upAxis == Cross(right, forward)
    IN  [pose |-> [R |-> <<right, VNeg(upAxis), forward>>, t |-> eye]]

\* camera.pose()
CameraPose(camera) == camera.pose

\* ------------------------------------------------------------ the program
\* the list literal with the fourth corner mistyped
PointsLiteralTypo ==
    << Point3(Num(10), Num(10), Num(10)),
       Point3(Num(-10), Num(10), Num(10)),
       Point3(Num(-10), Num(-10), Num(10)),
       Point3(Num(10), Num(10), Num(10)),
       Point3(Num(10), Num(10), Num(-10)),
       Point3(Num(-10), Num(10), Num(-10)),
       Point3(Num(-10), Num(-10), Num(-10)),
       Point3(Num(10), Num(-10), Num(-10)) >>
\* line 11-18: the list literal of createPoints
PointsLiteral ==
    << Point3(Num(10), Num(10), Num(10)),
       Point3(Num(-10), Num(10), Num(10)),
       Point3(Num(-10), Num(-10), Num(10)),
       Point3(Num(10), Num(-10), Num(10)),
       Point3(Num(10), Num(10), Num(-10)),
       Point3(Num(-10), Num(10), Num(-10)),
       Point3(Num(-10), Num(-10), Num(-10)),
       Point3(Num(10), Num(-10), Num(-10)) >>

\* line 23
Radius == Num(30)
\* the call of linspace without endpoint=False
AnglesEndpoint == linspace(Zero, Mul(Num(2), NpPi), 8, TRUE)
\* line 24
Angles == linspace(Zero, Mul(Num(2), NpPi), 8, FALSE)
\* an up hint along the x axis
UpAlongX == Point3(Num(1), Num(0), Num(0))
\* line 25
Up == Point3(Num(0), Num(0), Num(1))
\* a target on the circle of the cameras
TargetOnCircle == Point3(Num(30), Num(0), Num(0))
\* line 26
Target == Point3(Num(0), Num(0), Num(0))
\* a list that outlives the call (a mutable default argument)
NewPosesKept(prev) == prev
\* line 27: a fresh empty list, whatever list an earlier call returned
NewPoses(prev) == << >>
\* cosine and sine exchanged
PositionSinCos(radius, theta) ==
    Point3(Mul(radius, Sin(theta)), Mul(radius, Cos(theta)), Num(0))
\* the radius written as the third coordinate
PositionRaised(radius, theta) ==
    Point3(Mul(radius, Cos(theta)), Mul(radius, Sin(theta)), radius)
\* line 29
Position(radius, theta) ==
    Point3(Mul(radius, Cos(theta)), Mul(radius, Sin(theta)), Num(0))
\* eye and target exchanged
LookatCallSwapped(position, target, up) == Lookat(target, position, up)
\* line 30
LookatCall(position, target, up) == Lookat(position, target, up)
\* one list shared by every call (a module-level list)
PosesCellGlobal(t) == 1
\* line 27, 31, 32: poses is a local of the call, so the list of the call
\* running in thread t is a cell no other thread's call names
PosesCell(t) == t

Threads == 1..NumThreads

VARIABLES pc, locals, poses, lastPoses, retPoints, retPoses, ncalls, done
vars == <<pc, locals, poses, lastPoses, retPoints, retPoses, ncalls, done>>

\* the locals of a call before any of them is bound
NoPose == [R |-> << >>, t |-> << >>]
NoLocals ==
    [points |-> << >>, radius |-> << >>, angles |-> << >>, up |-> << >>,
     target |-> << >>, it |-> 0, theta |-> << >>, position |-> << >>,
     camera |-> [pose |-> NoPose]]

Init ==
    /\ pc = [t \in Threads |-> "idle"]
    /\ locals = [t \in Threads |-> NoLocals]
    /\ poses = [t \in Threads |-> << >>]
    /\ lastPoses = << >>
    /\ retPoints = {}
    /\ retPoses = {}
    /\ ncalls = 0
    /\ done = [createPoints |-> 0, createPoses |-> 0]

Goto(t, label) == pc' = [pc EXCEPT ![t] = label]
Bind(t, f) == locals' = [locals EXCEPT ![t] = f]

\* ---- createPoints
CallCreatePoints(t) ==
    /\ pc[t] = "idle"
    /\ ncalls < MaxCalls
    /\ ncalls' = ncalls + 1
    /\ Goto(t, "points11")
    /\ UNCHANGED <<locals, poses, lastPoses, retPoints, retPoses, done>>

PointsAssign(t) ==
    /\ pc[t] = "points11"
    /\ Bind(t, [locals[t] EXCEPT !.points = PointsLiteral])
    /\ Goto(t, "points19")
    /\ UNCHANGED <<poses, lastPoses, retPoints, retPoses, ncalls, done>>

PointsReturn(t) ==
    /\ pc[t] = "points19"
    /\ retPoints' = retPoints \cup {locals[t].points}
    /\ Bind(t, NoLocals)
    /\ done' = [done EXCEPT !.createPoints = @ + 1]
    /\ Goto(t, "idle")
    /\ UNCHANGED <<poses, lastPoses, retPoses, ncalls>>

\* ---- createPoses
CallCreatePoses(t) ==
    /\ pc[t] = "idle"
    /\ ncalls < MaxCalls
    /\ ncalls' = ncalls + 1
    /\ Goto(t, "poses23")
    /\ UNCHANGED <<locals, poses, lastPoses, retPoints, retPoses, done>>

\* line 23-26: the four constants of the call
PosesSetup(t) ==
    /\ pc[t] = "poses23"
    /\ Bind(t, [locals[t] EXCEPT !.radius = Radius, !.angles = Angles,
                                 !.up = Up, !.target = Target])
    /\ Goto(t, "poses27")
    /\ UNCHANGED <<poses, lastPoses, retPoints, retPoses, ncalls, done>>

\* line 27
PosesEmpty(t) ==
    /\ pc[t] = "poses27"
    /\ poses' = [poses EXCEPT ![PosesCell(t)] = NewPoses(lastPoses)]
    /\ Goto(t, "poses28")
    /\ UNCHANGED <<locals, lastPoses, retPoints, retPoses, ncalls, done>>

\* line 28-30: the for statement leaves the loop when the angles are used
\* up, or else binds the next angle; the body then binds the position on
\* the circle and the camera looking from it at the target
PosesFor(t) ==
    /\ pc[t] = "poses28"
    /\ IF locals[t].it < Len(locals[t].angles)
       THEN LET theta == locals[t].angles[locals[t].it + 1]
                position == Position(locals[t].radius, theta)
            IN  /\ Bind(t, [locals[t] EXCEPT
                              !.it = @ + 1,
                              !.theta = theta,
                              !.position = position,
                              !.camera = LookatCall(position, locals[t].target, locals[t].up)])
                /\ Goto(t, "poses31")
       ELSE /\ Goto(t, "poses32")
            /\ UNCHANGED locals
    /\ UNCHANGED <<poses, lastPoses, retPoints, retPoses, ncalls, done>>

\* line 31
PosesAppend(t) ==
    /\ pc[t] = "poses31"
    /\ poses' = [poses EXCEPT ![PosesCell(t)] = Append(@, CameraPose(locals[t].camera))]
    /\ Goto(t, "poses28")
    /\ UNCHANGED <<locals, lastPoses, retPoints, retPoses, ncalls, done>>

\* line 32: the list goes to the caller and the frame of the call is dropped
PosesReturn(t) ==
    /\ pc[t] = "poses32"
    /\ retPoses' = retPoses \cup {poses[PosesCell(t)]}
    /\ lastPoses' = poses[PosesCell(t)]
    /\ poses' = [poses EXCEPT ![PosesCell(t)] = << >>]
    /\ Bind(t, NoLocals)
    /\ done' = [done EXCEPT !.createPoses = @ + 1]
    /\ Goto(t, "idle")
    /\ UNCHANGED <<retPoints, ncalls>>

Next ==
    \E t \in Threads :
        \/ CallCreatePoints(t)
        \/ PointsAssign(t)
        \/ PointsReturn(t)
        \/ CallCreatePoses(t)
        \/ PosesSetup(t)
        \/ PosesEmpty(t)
        \/ PosesFor(t)
        \/ PosesAppend(t)
        \/ PosesReturn(t)

Spec == Init /\ [][Next]_vars

\* ----------------------------------------------------------- properties
InPoses(t) == pc[t] \in {"poses28", "poses31", "poses32"}
\* the lists at a return statement: what the calls return
ReturnedPoints == {locals[t].points : t \in {u \in Threads : pc[u] = "points19"}}
ReturnedPoses == {poses[PosesCell(t)] : t \in {u \in Threads : pc[u] = "poses32"}}
ReturnedPose == UNION {{L[k] : k \in 1..Len(L)} : L \in ReturnedPoses}
\* the position of the running iteration, once line 29 has bound it
BoundPositions ==
    {locals[t].position : t \in {u \in Threads : pc[u] = "poses31"}}

Vec(x, y, z) == <<Num(x), Num(y), Num(z)>>
Origin == Vec(0, 0, 0)
Signs == {-10, 10}
Distinct(L) == \A i, j \in 1..Len(L) : i # j => L[i] # L[j]

\* C1: createPoints() returns exactly the 8 points (10,10,10), (-10,10,10),
\* (-10,-10,10), (10,-10,10), (10,10,-10), (-10,10,-10), (-10,-10,-10),
\* (10,-10,-10) in this order; they are pairwise distinct and their set is
\* the set of all sign combinations of (+-10, +-10, +-10).
C1_PointsAreTheCorners ==
    \A L \in ReturnedPoints :
        /\ Len(L) = 8
        /\ L[1] = Vec(10, 10, 10) /\ L[2] = Vec(-10, 10, 10)
        /\ L[3] = Vec(-10, -10, 10) /\ L[4] = Vec(10, -10, 10)
        /\ L[5] = Vec(10, 10, -10) /\ L[6] = Vec(-10, 10, -10)
        /\ L[7] = Vec(-10, -10, -10) /\ L[8] = Vec(10, -10, -10)
        /\ Distinct(L)
        /\ {L[k] : k \in 1..Len(L)} = {Vec(x, y, z) : x \in Signs, y \in Signs, z \in Signs}
C1_Witness == \E t \in Threads : pc[t] = "points19" /\ Len(locals[t].points) = 8

\* the angle at the origin from p to q is 45 degrees, counter-clockwise:
\* p.q = |p||q| cos 45 and p x q = (0, 0, |p||q| sin 45)
Subtend45(p, q) ==
    LET c == Mul(Mul(Norm(p), Norm(q)), HalfSqrt2)
    IN  /\ Sign(c) = 1
        /\ Dot(p, q) = c
        /\ Cross(p, q) = <<Zero, Zero, c>>
Degrees(theta) == Mul(theta, Num(180))

\* C2: createPoses() returns exactly 8 poses, the k-th built from the angle
\* k*45 degrees (k = 0..7): the angles increase strictly, start at 0 and stay
\* below 360 degrees, the k-th pose added is at the k-th angle, consecutive
\* positions subtend 45 degrees at the origin, and so do the last and the
\* first.
C2_EvenlySpaced ==
    /\ \A t \in Threads :
         pc[t] \in {"poses27", "poses32"} =>
           LET a == locals[t].angles
           IN  /\ Len(a) = 8
               /\ \A k \in 1..Len(a) : Degrees(a[k]) = Num(45 * (k - 1))
               /\ \A k \in 1..(Len(a) - 1) : Less(a[k], a[k + 1])
               /\ a[1] = Zero
               /\ \A k \in 1..Len(a) : Less(Degrees(a[k]), Num(360))
    /\ \A t \in Threads :
         pc[t] = "poses31" =>
           /\ Degrees(locals[t].theta) = Num(45 * Len(poses[PosesCell(t)]))
           /\ locals[t].it = Len(poses[PosesCell(t)]) + 1
    /\ \A L \in ReturnedPoses :
         /\ Len(L) = 8
         /\ L[1].t = Vec(30, 0, 0)
         /\ \A k \in 1..(Len(L) - 1) : Subtend45(L[k].t, L[k + 1].t)
         /\ Subtend45(L[Len(L)].t, L[1].t)
C2_Witness ==
    \E t \in Threads : pc[t] = "poses32" /\ Len(poses[PosesCell(t)]) = 8 /\ Len(locals[t].angles) = 8

\* C3: every pose's position is (30 cos theta_k, 30 sin theta_k, 0), at
\* distance 30 from the origin; it is (30,0,0) for k = 0, (0,30,0) for k = 2
\* and (-30,0,0) for k = 4.
C3_OnTheCircle ==
    /\ \A p \in BoundPositions : Dot(p, p) = Num(900)
    /\ \A L \in ReturnedPoses :
         /\ \A k \in 1..Len(L) :
              /\ L[k].t = <<Mul(Num(30), Cos(Mk(k - 1, 0, 4))),
                            Mul(Num(30), Sin(Mk(k - 1, 0, 4))), Zero>>
              /\ Norm(VSub(L[k].t, Origin)) = Num(30)
         /\ Len(L) >= 5
         /\ L[1].t = Vec(30, 0, 0)
         /\ L[3].t = Vec(0, 30, 0)
         /\ L[5].t = Vec(-30, 0, 0)
C3_Witness ==
    \E t \in Threads : pc[t] = "poses32" /\ Len(poses[PosesCell(t)]) >= 5

\* C4: the z-coordinate of every pose's position is exactly 0, at every
\* iteration of the loop and in the returned list.
C4_InThePlane ==
    /\ \A p \in BoundPositions : p[3] = Zero
    /\ \A P \in ReturnedPose : P.t[3] = Zero
C4_Witness ==
    /\ \E t \in Threads : pc[t] = "poses32" /\ Len(poses[PosesCell(t)]) >= 1
    /\ \E t \in Threads : pc[t] = "poses31" /\ locals[t].it >= 2

\* C5: every pose's forward axis is the normalized vector from its position
\* to the origin, so a step along it from the position strictly decreases
\* the distance to the origin.
StepLengths == {Num(1), Num(30), HalfSqrt2}
Moved(P, s) == VAdd(P.t, <<Mul(s, P.R[3][1]), Mul(s, P.R[3][2]), Mul(s, P.R[3][3])>>)
C5_FacesTheOrigin ==
    \A P \in ReturnedPose :
        /\ P.R[3] = Normalize(VSub(Origin, P.t))
        /\ Sign(Dot(P.R[3], VSub(Origin, P.t))) = 1
        /\ \A s \in StepLengths : Less(Dot(Moved(P, s), Moved(P, s)), Dot(P.t, P.t))
C5_Witness ==
    \E t \in Threads : pc[t] = "poses32" /\ Len(poses[PosesCell(t)]) = 8

\* C6: every pose's rotation R is orthonormal and right-handed:
\* R^T R = identity and det R = +1.
Det(R) == Dot(R[1], Cross(R[2], R[3]))
Orthonormal(R) ==
    \A i, j \in 1..3 : Dot(R[i], R[j]) = (IF i = j THEN One ELSE Zero)
C6_RightHandedFrame ==
    \A P \in ReturnedPose : Orthonormal(P.R) /\ Det(P.R) = One
C6_Witness ==
    \E L \in ReturnedPoses : Len(L) >= 2 /\ L[1].R # L[2].R

\* C7: any two calls of the same function return equal sequences, however
\* many calls of either function ran before or in between, and a finished
\* call leaves nothing behind that a later call reads.
C7_Deterministic ==
    /\ Cardinality(retPoints \cup ReturnedPoints) <= 1
    /\ Cardinality(retPoses \cup ReturnedPoses) <= 1
    /\ \A t \in Threads :
         /\ pc[t] = "idle" => locals[t] = NoLocals
         /\ pc[t] = "poses28" /\ locals[t].it = 0 => poses[PosesCell(t)] = << >>
C7_Witness == done.createPoses >= 2 /\ done.createPoints >= 1

\* what a lone sequential call returns
CreatePointsAlone == PointsLiteral
CreatePosesAlone ==
    [k \in 1..Len(Angles) |->
        CameraPose(LookatCall(Position(Radius, Angles[k]), Target, Up))]
Appended(t) == IF pc[t] \in {"poses28", "poses32"} THEN locals[t].it ELSE locals[t].it - 1

\* C8: under every interleaving of concurrent calls each call writes only
\* its own list and returns what a lone sequential call returns; the list a
\* call is building is always the prefix it has itself appended.
C8_ConcurrentCallsIndependent ==
    /\ \A L \in retPoints : L = CreatePointsAlone
    /\ \A L \in retPoses : L = CreatePosesAlone
    /\ \A t \in Threads :
         InPoses(t) => poses[PosesCell(t)] = SubSeq(CreatePosesAlone, 1, Appended(t))
C8_Witness ==
    /\ retPoses # {}
    /\ \E t, u \in Threads :
        /\ t # u
        /\ pc[t] = "poses31" /\ pc[u] = "poses31"
        /\ Len(poses[PosesCell(t)]) >= 1
        /\ Len(poses[PosesCell(u)]) > Len(poses[PosesCell(t)])

\* C9: the 8 points are the corners of a cube of edge length 10: two corners
\* that differ in exactly one coordinate are at distance 10.
DifferingCoordinates(p, q) == Cardinality({i \in 1..3 : p[i] # q[i]})
C9_EdgeLengthTen ==
    \A L \in ReturnedPoints :
        \A i, j \in 1..Len(L) :
            DifferingCoordinates(L[i], L[j]) = 1 => Norm(VSub(L[i], L[j])) = Num(10)

\* C10: in every iteration the eye differs from the target, forward is
\* horizontal and not parallel to the up hint, forward x up is not zero, so
\* every pose is finite and the loop ends with 8 poses appended.
PoseFinite(P) == VFinite(P.t) /\ \A i \in 1..3 : VFinite(P.R[i])
C10_NoDegeneracy ==
    /\ \A t \in Threads :
         pc[t] = "poses31" =>
           LET forward == VSub(locals[t].target, locals[t].position)
           IN  /\ forward # ZeroVec
               /\ forward[3] = Zero
               /\ Cross(forward, locals[t].up) # ZeroVec
    /\ \A t \in Threads : pc[t] = "poses31" => PoseFinite(CameraPose(locals[t].camera))
    /\ \A t \in Threads :
         InPoses(t) => locals[t].it <= 8 /\ Len(poses[PosesCell(t)]) = Appended(t)
    /\ \A L \in ReturnedPoses : Len(L) = 8 /\ \A k \in 1..Len(L) : PoseFinite(L[k])
C10_Witness ==
    \E t \in Threads :
        pc[t] = "poses32" /\ locals[t].it = 8 /\ PoseFinite(poses[PosesCell(t)][8])

====
